---- MODULE Spec2Model ----
(***************************************************************************)
(* Cocoro Air sensor platform (custom_components/cocoro_air/sensor.py).    *)
(*                                                                         *)
(* async_setup_entry builds eight entities from one API handle.  Each      *)
(* entity's async_update awaits api.update(), passes the raw snapshot to   *)
(* api.get_sensor_data(), reads its own field, optionally scales it, and   *)
(* stores the result; `except Exception` logs a warning instead.           *)
(*                                                                         *)
(* A refresh is split at its only suspension point, the await of           *)
(* api.update(): AsyncUpdateCall runs the coroutine up to the await,       *)
(* UpdateReturns / UpdateRaises run it from the await to its end.          *)
(*                                                                         *)
(* Python values are pairs <<type, n>> so that values of different Python  *)
(* types can be compared: None, an int, a bool, a str.                     *)
(***************************************************************************)
EXTENDS Integers, Sequences, FiniteSets, TLC

\* ------------------------------------------------------------------ bounds

\* Refreshes started in one behaviour of Spec.
MaxRefreshes == 2

\* Refreshes started in one behaviour of SpecLevels.
MaxLevelRefreshes == 1

\* Raw levels 0..MaxRaw are fed to the scaled entities in SpecLevels.
MaxRaw == 120

\* ------------------------------------------------------------ Python values

None == <<"None", 0>>

PyInt(n) == <<"int", n>>

PyBool(b) == <<"bool", IF b THEN 1 ELSE 0>>

\* Some non-numeric string a malformed snapshot may carry.
PyStr == <<"str", 0>>

\* int and bool support `/`; None and str raise TypeError.
IsNumber(v) == v[1] \in {"int", "bool"}

\* int(n / d) in place of round(n / d): the fraction is dropped.
PyTruncate(n, d) == n \div d

\* round(n / d) for d > 0: Python 3 rounds to the nearest integer, a tie to
\* the even one.  \div floors and % is non-negative, also for n < 0.
PyRound(n, d) ==
    LET q == n \div d
        r == n % d
    IN  IF 2 * r < d THEN q
        ELSE IF 2 * r > d THEN q + 1
        ELSE IF q % 2 = 0 THEN q ELSE q + 1

\* --------------------------------------------------------------- entities

\* The entity classes, in the order async_setup_entry lists them.
Classes ==
    << "CocoroAirTemperatureSensor", "CocoroAirHumiditySensor",
       "CocoroAirWaterTankSensor", "CocoroAirPM25Sensor",
       "CocoroAirCleanedAirVolumeSensor", "CocoroAirOdorLevelSensor",
       "CocoroAirDustLevelSensor", "CocoroAirCleanlinessLevelSensor" >>

Entities == DOMAIN Classes

\* A class pasted from its neighbour that still reads the neighbour's key.
FieldCopyPaste(e) ==
    CASE Classes[e] = "CocoroAirTemperatureSensor" -> "temperature"
      [] Classes[e] = "CocoroAirHumiditySensor" -> "temperature"
      [] Classes[e] = "CocoroAirWaterTankSensor" -> "water_tank"
      [] Classes[e] = "CocoroAirPM25Sensor" -> "pm25"
      [] Classes[e] = "CocoroAirCleanedAirVolumeSensor" -> "cleaned_air_volume"
      [] Classes[e] = "CocoroAirOdorLevelSensor" -> "odor_level"
      [] Classes[e] = "CocoroAirDustLevelSensor" -> "dust_level"
      [] Classes[e] = "CocoroAirCleanlinessLevelSensor" -> "dust_level"

\* The key each class reads from the mapping get_sensor_data() returns.
Field(e) ==
    CASE Classes[e] = "CocoroAirTemperatureSensor" -> "temperature"
      [] Classes[e] = "CocoroAirHumiditySensor" -> "humidity"
      [] Classes[e] = "CocoroAirWaterTankSensor" -> "water_tank"
      [] Classes[e] = "CocoroAirPM25Sensor" -> "pm25"
      [] Classes[e] = "CocoroAirCleanedAirVolumeSensor" -> "cleaned_air_volume"
      [] Classes[e] = "CocoroAirOdorLevelSensor" -> "odor_level"
      [] Classes[e] = "CocoroAirDustLevelSensor" -> "dust_level"
      [] Classes[e] = "CocoroAirCleanlinessLevelSensor" -> "cleanliness_level"

\* A class pasted from its neighbour that still carries the neighbour's suffix.
SuffixCopyPaste(e) ==
    CASE Classes[e] = "CocoroAirTemperatureSensor" -> "_temperature"
      [] Classes[e] = "CocoroAirHumiditySensor" -> "_temperature"
      [] Classes[e] = "CocoroAirWaterTankSensor" -> "_water_tank"
      [] Classes[e] = "CocoroAirPM25Sensor" -> "_pm25"
      [] Classes[e] = "CocoroAirCleanedAirVolumeSensor" -> "_cleaned_air_volume"
      [] Classes[e] = "CocoroAirOdorLevelSensor" -> "_odor_level"
      [] Classes[e] = "CocoroAirDustLevelSensor" -> "_dust_level"
      [] Classes[e] = "CocoroAirCleanlinessLevelSensor" -> "_cleanliness_level"

\* The suffix each class appends to the device id in its unique id.
Suffix(e) ==
    CASE Classes[e] = "CocoroAirTemperatureSensor" -> "_temperature"
      [] Classes[e] = "CocoroAirHumiditySensor" -> "_humidity"
      [] Classes[e] = "CocoroAirWaterTankSensor" -> "_water_tank"
      [] Classes[e] = "CocoroAirPM25Sensor" -> "_pm25"
      [] Classes[e] = "CocoroAirCleanedAirVolumeSensor" -> "_cleaned_air_volume"
      [] Classes[e] = "CocoroAirOdorLevelSensor" -> "_odor_level"
      [] Classes[e] = "CocoroAirDustLevelSensor" -> "_dust_level"
      [] Classes[e] = "CocoroAirCleanlinessLevelSensor" -> "_cleanliness_level"

OdorDivisor == 33

DustDivisor == 25

CleanlinessDivisor == 25

\* The classes whose async_update scales the raw value.
Scaled == {e \in Entities : Classes[e] \in
    {"CocoroAirOdorLevelSensor", "CocoroAirDustLevelSensor",
     "CocoroAirCleanlinessLevelSensor"}}

Divisor(e) ==
    CASE Classes[e] = "CocoroAirOdorLevelSensor" -> OdorDivisor
      [] Classes[e] = "CocoroAirDustLevelSensor" -> DustDivisor
      [] Classes[e] = "CocoroAirCleanlinessLevelSensor" -> CleanlinessDivisor

\* ----------------------------------------------------------- the API client

\* The API handles a config entry may hold: api.device_id is a str or an int,
\* api.device_info is opaque.
Apis ==
    { [kind |-> "str", s |-> "AC-1", n |-> 0, device_info |-> "info-AC-1"],
      [kind |-> "str", s |-> "kc_odor_level", n |-> 0, device_info |-> "info-kc"],
      [kind |-> "int", s |-> "", n |-> 407, device_info |-> "info-407"] }

Digit(d) ==
    CASE d = 0 -> "0" [] d = 1 -> "1" [] d = 2 -> "2" [] d = 3 -> "3"
      [] d = 4 -> "4" [] d = 5 -> "5" [] d = 6 -> "6" [] d = 7 -> "7"
      [] d = 8 -> "8" [] d = 9 -> "9"

RECURSIVE IntToStr(_)
IntToStr(n) == IF n < 10 THEN Digit(n) ELSE IntToStr(n \div 10) \o Digit(n % 10)

\* What the replacement field {api.device_id} of the f-string formats to.
Format(a) == IF a.kind = "str" THEN a.s ELSE IntToStr(a.n)

\* f"{api.device_id}_<suffix>"
UniqueId(a, e) == Format(a) \o Suffix(e)

\* The raw snapshots update() may return: opaque to the entities, which only
\* hand them to get_sensor_data().
Fixtures == 1 .. 6

RawFixtures == [kind : {"fixture"}, n : Fixtures]

RawLevels == [kind : {"levels"}, n : 0 .. MaxRaw]

\* The keys of the mapping get_sensor_data() returns.
Fields ==
    { "temperature", "humidity", "water_tank", "pm25", "cleaned_air_volume",
      "odor_level", "dust_level", "cleanliness_level" }

\* A reading with every field reported and the three levels at r.
LevelData(r) ==
    [f \in Fields |->
        CASE f = "temperature" -> PyInt(22)
          [] f = "humidity" -> PyInt(45)
          [] f = "water_tank" -> PyBool(TRUE)
          [] f = "pm25" -> PyInt(8)
          [] f = "cleaned_air_volume" -> PyInt(120)
          [] OTHER -> PyInt(r)]

FixtureData(n) ==
    CASE n = 1 -> [LevelData(50) EXCEPT !["odor_level"] = PyInt(99),
                                        !["dust_level"] = PyInt(12)]
      [] n = 2 -> [f \in Fields |->
                    CASE f = "temperature" -> PyInt(18)
                      [] f = "humidity" -> PyInt(60)
                      [] f = "water_tank" -> PyBool(FALSE)
                      [] f = "pm25" -> PyInt(0)
                      [] f = "cleaned_air_volume" -> PyInt(0)
                      [] f = "odor_level" -> PyInt(16)
                      [] f = "dust_level" -> PyInt(13)
                      [] f = "cleanliness_level" -> PyInt(100)]
      [] n = 3 -> [f \in Fields |-> None]
      [] n = 4 -> [f \in {"humidity", "water_tank"} |->
                    IF f = "humidity" THEN PyInt(45) ELSE PyBool(TRUE)]
      [] n = 5 -> [f \in Fields |-> PyStr]
      [] n = 6 -> [f \in {} |-> None]

\* get_sensor_data(raw): the mapping, or the exception it raises.  Fixture 4
\* is a mapping that lacks six of the keys; fixture 6 is a snapshot it cannot parse.
get_sensor_data(raw) ==
    IF raw.kind = "levels" THEN [raised |-> "", data |-> LevelData(raw.n)]
    ELSE IF raw.n = 6 THEN [raised |-> "ValueError", data |-> FixtureData(6)]
    ELSE [raised |-> "", data |-> FixtureData(raw.n)]

\* What the await of update() may raise: a failure of the client, or the
\* cancellation of the task that runs the refresh.
UpdateExceptions == {"ConnectionError", "CancelledError"}

\* isinstance(exc, Exception): asyncio.CancelledError derives from
\* BaseException only.
IsException(exc) == exc \in {"ConnectionError", "ValueError", "KeyError", "TypeError"}

\* ------------------------------------------------------------------ state

VARIABLES
    api,                \* hass.data[DOMAIN][entry.entry_id]["cocoro_air_api"]
    entity_api,         \* self._api of each entity
    attr_unique_id,     \* self._attr_unique_id
    attr_device_info,   \* self._attr_device_info
    attr_native_value,  \* self._attr_native_value (_attr_is_on for the water tank)
    pc,                 \* "idle", or "awaiting" inside api.update()
    pre,                \* the displayed value when the entity's refresh began
    last,               \* how the entity's last finished refresh ended
    calls,              \* calls made by the entity's current or last refresh
    refreshes           \* refreshes the host has started

vars == << api, entity_api, attr_unique_id, attr_device_info, attr_native_value,
           pc, pre, last, calls, refreshes >>

\* No snapshot: update() raised.
NoRaw == [kind |-> "none", n |-> 0]

NoCalls == [update |-> 0, get_sensor_data |-> 0, warning |-> 0]

\* ------------------------------------------------------- the refresh, pure

\* data.get('<field>') in place of data['<field>']: a missing key reads as None.
ReadFieldGet(e, data) ==
    IF Field(e) \in DOMAIN data
    THEN [raised |-> "", v |-> data[Field(e)]]
    ELSE [raised |-> "", v |-> None]

\* data['<field>']: a missing key raises KeyError.
ReadField(e, data) ==
    IF Field(e) \in DOMAIN data
    THEN [raised |-> "", v |-> data[Field(e)]]
    ELSE [raised |-> "KeyError", v |-> None]

\* round((raw_value or 0) / divisor) with no test for None: a null level reads
\* as level 0.
NewValueNullAsZero(e, raw_value) ==
    IF e \notin Scaled THEN [raised |-> "", v |-> raw_value]
    ELSE IF raw_value = None THEN [raised |-> "", v |-> PyInt(0)]
    ELSE IF IsNumber(raw_value)
         THEN [raised |-> "", v |-> PyInt(PyRound(raw_value[2], Divisor(e)))]
         ELSE [raised |-> "TypeError", v |-> None]

\* The value the try block assigns from raw_value: round(raw_value / divisor)
\* or None in the three level classes, raw_value itself in the others.
NewValue(e, raw_value) ==
    IF e \notin Scaled THEN [raised |-> "", v |-> raw_value]
    ELSE IF raw_value = None THEN [raised |-> "", v |-> None]
    ELSE IF IsNumber(raw_value)
         THEN [raised |-> "", v |-> PyInt(PyRound(raw_value[2], Divisor(e)))]
         ELSE [raised |-> "TypeError", v |-> None]

\* The try block from the return of update() on: the value to assign, or the
\* exception raised before the assignment.
TryBody(e, raw) ==
    LET g == get_sensor_data(raw)
    IN  IF g.raised # "" THEN [raised |-> g.raised, v |-> None]
        ELSE LET f == ReadField(e, g.data)
             IN  IF f.raised # "" THEN f ELSE NewValue(e, f.v)

\* except KeyError in place of except Exception.
CatchesKeyErrorOnly(exc) == exc = "KeyError"

\* except Exception
Catches(exc) == IsException(exc)

\* `+=` in place of `=`: a numeric reading is added to the one displayed.
AssignAccumulate(old, new) ==
    IF old[1] = "int" /\ new[1] = "int" THEN PyInt(old[2] + new[2]) ELSE new

\* self._attr_native_value = new
Assign(old, new) == new

\* An except block that resets the attribute to None.
ExceptValueReset(old) == None

\* The except block leaves the attribute alone.
ExceptValue(old) == old

\* The value kept in an attribute of a base class the eight classes share.
StoreShared(values, e, v) == [x \in DOMAIN values |-> v]

\* The attribute is the instance's own.
Store(values, e, v) == [values EXCEPT ![e] = v]

\* An except block that logs and calls update() once more.
CallsOnExceptRetry(c) == [c EXCEPT !.warning = @ + 1, !.update = @ + 1]

\* The except block logs one warning and does nothing else.
CallsOnExcept(c) == [c EXCEPT !.warning = @ + 1]

\* ------------------------------------------------------------------ actions

\* __init__ of every class, for the entities async_setup_entry builds.
Init ==
    /\ api \in Apis
    /\ entity_api = [e \in Entities |-> api]
    /\ attr_unique_id = [e \in Entities |-> UniqueId(api, e)]
    /\ attr_device_info = [e \in Entities |-> api.device_info]
    /\ attr_native_value = [e \in Entities |-> None]
    /\ pc = [e \in Entities |-> "idle"]
    /\ pre = [e \in Entities |-> None]
    /\ last = [e \in Entities |-> [outcome |-> "none", exc |-> "", raw |-> NoRaw]]
    /\ calls = [e \in Entities |-> NoCalls]
    /\ refreshes = 0

\* The host calls async_update: the coroutine calls update() and suspends.
AsyncUpdateCall(e) ==
    /\ pc[e] = "idle"
    /\ pc' = [pc EXCEPT ![e] = "awaiting"]
    /\ pre' = [pre EXCEPT ![e] = attr_native_value[e]]
    /\ calls' = [calls EXCEPT ![e] = [NoCalls EXCEPT !.update = 1]]
    /\ refreshes' = refreshes + 1
    /\ UNCHANGED << api, entity_api, attr_unique_id, attr_device_info,
                    attr_native_value, last >>

\* update() returns raw: the rest of the try block runs, then the except
\* block if it raised.
UpdateReturns(e, raw) ==
    /\ pc[e] = "awaiting"
    /\ LET t == TryBody(e, raw)
           c == [calls[e] EXCEPT !.get_sensor_data = @ + 1]
       IN  IF t.raised = ""
           THEN /\ attr_native_value' =
                       Store(attr_native_value, e, Assign(attr_native_value[e], t.v))
                /\ last' = [last EXCEPT ![e] = [outcome |-> "ok", exc |-> "", raw |-> raw]]
                /\ calls' = [calls EXCEPT ![e] = c]
           ELSE IF Catches(t.raised)
           THEN /\ attr_native_value' =
                       Store(attr_native_value, e, ExceptValue(attr_native_value[e]))
                /\ last' = [last EXCEPT ![e] =
                               [outcome |-> "caught", exc |-> t.raised, raw |-> raw]]
                /\ calls' = [calls EXCEPT ![e] = CallsOnExcept(c)]
           ELSE /\ attr_native_value' = attr_native_value
                /\ last' = [last EXCEPT ![e] =
                               [outcome |-> "propagated", exc |-> t.raised, raw |-> raw]]
                /\ calls' = [calls EXCEPT ![e] = c]
    /\ pc' = [pc EXCEPT ![e] = "idle"]
    /\ UNCHANGED << api, entity_api, attr_unique_id, attr_device_info, pre, refreshes >>

\* The await of update() raises exc: the except block runs if exc is an
\* Exception, otherwise exc leaves async_update.
UpdateRaises(e, exc) ==
    /\ pc[e] = "awaiting"
    /\ IF Catches(exc)
       THEN /\ attr_native_value' =
                   Store(attr_native_value, e, ExceptValue(attr_native_value[e]))
            /\ last' = [last EXCEPT ![e] =
                           [outcome |-> "caught", exc |-> exc, raw |-> NoRaw]]
            /\ calls' = [calls EXCEPT ![e] = CallsOnExcept(calls[e])]
       ELSE /\ attr_native_value' = attr_native_value
            /\ last' = [last EXCEPT ![e] =
                           [outcome |-> "propagated", exc |-> exc, raw |-> NoRaw]]
            /\ calls' = calls
    /\ pc' = [pc EXCEPT ![e] = "idle"]
    /\ UNCHANGED << api, entity_api, attr_unique_id, attr_device_info, pre, refreshes >>

Next ==
    \E e \in Entities :
        \/ refreshes < MaxRefreshes /\ AsyncUpdateCall(e)
        \/ \E raw \in RawFixtures : UpdateReturns(e, raw)
        \/ \E exc \in UpdateExceptions : UpdateRaises(e, exc)

Spec == Init /\ [][Next]_vars

\* The three level entities alone, fed every raw level 0..MaxRaw.
NextLevels ==
    \E e \in Scaled :
        \/ refreshes < MaxLevelRefreshes /\ AsyncUpdateCall(e)
        \/ \E raw \in RawLevels : UpdateReturns(e, raw)

SpecLevels == Init /\ [][NextLevels]_vars

\* ------------------------------------------------------------- properties

\* The entity's last refresh has ended and no later one has begun.
Finished(e) == pc[e] = "idle" /\ last[e].outcome # "none"

\* The field each entity is named after, by its place in the setup list.
NamedField(e) ==
    << "temperature", "humidity", "water_tank", "pm25", "cleaned_air_volume",
       "odor_level", "dust_level", "cleanliness_level" >>[e]

\* The mapping the entity's last refresh got from get_sensor_data().
LastData(e) == get_sensor_data(last[e].raw).data

\* The entity's last refresh got a mapping from get_sensor_data().
LastParsed(e) == last[e].raw # NoRaw /\ get_sensor_data(last[e].raw).raised = ""

Abs(x) == IF x < 0 THEN -x ELSE x

\* C1: a refresh in which update(), get_sensor_data(), the field read or the
\* scaling raised leaves the entity's displayed value as it was when the
\* refresh began.
C1_FailedRefreshKeepsValue ==
    \A e \in Entities :
        Finished(e) /\ last[e].outcome # "ok" => attr_native_value[e] = pre[e]

\* A refresh failed after an earlier one had set a value, which is still shown.
C1_Witness ==
    \E e \in Entities :
        /\ Finished(e) /\ last[e].outcome = "caught"
        /\ pre[e] # None /\ attr_native_value[e] = pre[e]

\* C2 as stated: no refresh ever ends with an exception leaving async_update.
C2_NothingPropagates ==
    \A e \in Entities : last[e].outcome # "propagated"

\* C2, amended: an exception of the Exception hierarchy raised by the fetch or
\* the parse is caught and logged as one warning, and the refresh returns; an
\* exception outside that hierarchy (the cancellation of the awaiting task)
\* leaves async_update without a warning.
C2_ExceptionsCaughtAndLogged ==
    \A e \in Entities :
        Finished(e) /\ last[e].exc # "" =>
            IF last[e].exc \in {"ConnectionError", "ValueError", "KeyError", "TypeError"}
            THEN last[e].outcome = "caught" /\ calls[e].warning = 1
            ELSE last[e].outcome = "propagated" /\ calls[e].warning = 0

\* One refresh caught a failure of the fetch, another a failure of the parse.
C2_Witness ==
    \E e1, e2 \in Entities :
        /\ Finished(e1) /\ last[e1].outcome = "caught" /\ last[e1].raw = NoRaw
        /\ Finished(e2) /\ last[e2].outcome = "caught" /\ last[e2].raw # NoRaw
        /\ calls[e1].warning = 1 /\ calls[e2].warning = 1

\* C3: every entity's unique id is the text of the device id followed by the
\* entity's own suffix, the eight ids of a device differ pairwise, and no step
\* changes an id.
C3_UniqueIds ==
    /\ [](LET d == IF api.kind = "str" THEN api.s ELSE "407"
          IN  /\ \A e \in Entities : attr_unique_id[e] = d \o "_" \o NamedField(e)
              /\ \A e1, e2 \in Entities :
                    e1 # e2 => attr_unique_id[e1] # attr_unique_id[e2])
    /\ [][attr_unique_id' = attr_unique_id]_vars

\* Refreshes have run, one of them on the odor entity of a device whose id
\* itself ends in a suffix.
C3_Witness ==
    /\ api.s = "kc_odor_level"
    /\ attr_unique_id[6] = "kc_odor_level_odor_level"
    /\ Finished(6) /\ refreshes = 2

\* C4: after a successful refresh with an integer raw level r, the odor entity
\* shows an integer nearest to r/33 and the dust and cleanliness entities one
\* nearest to r/25; 99 gives odor 3 and 12 gives dust 0; for r in 0..100 the
\* odor level is in 0..3 and the other two are in 0..4.
C4_ScaledLevels ==
    \A e \in Scaled :
        Finished(e) /\ last[e].outcome = "ok" /\ LastData(e)[NamedField(e)][1] = "int" =>
            LET r == LastData(e)[NamedField(e)][2]
                v == attr_native_value[e]
                d == IF NamedField(e) = "odor_level" THEN 33 ELSE 25
            IN  /\ v[1] = "int"
                /\ 2 * Abs(r - d * v[2]) <= d
                /\ r \in 0 .. 100 =>
                       v[2] \in 0 .. (IF NamedField(e) = "odor_level" THEN 3 ELSE 4)
                /\ NamedField(e) = "odor_level" /\ r = 99 => v[2] = 3
                /\ NamedField(e) = "dust_level" /\ r = 12 => v[2] = 0

\* The dust entity shows 4 for a raw level of 100.
C4_Witness ==
    \E e \in Scaled :
        /\ Finished(e) /\ last[e].outcome = "ok"
        /\ NamedField(e) = "dust_level"
        /\ LastData(e)[NamedField(e)] = PyInt(100)
        /\ attr_native_value[e] = PyInt(4)

\* C5: after a successful refresh whose mapping has null for the entity's
\* field, the entity shows null.
C5_NullFieldShowsNull ==
    \A e \in Entities :
        /\ Finished(e) /\ last[e].outcome = "ok"
        /\ LastData(e)[NamedField(e)] = None
        => attr_native_value[e] = None

\* A level entity that showed a number shows null after a null reading.
C5_Witness ==
    \E e \in Scaled :
        /\ Finished(e) /\ last[e].outcome = "ok"
        /\ LastData(e)[NamedField(e)] = None
        /\ pre[e] # None /\ attr_native_value[e] = None

\* C6 as stated: when the mapping lacks the entity's key, the entity shows
\* null after the refresh.
C6_MissingKeyShowsNull ==
    \A e \in Entities :
        Finished(e) /\ LastParsed(e) /\ NamedField(e) \notin DOMAIN LastData(e)
            => attr_native_value[e] = None

\* C6, amended: when the mapping lacks the entity's key, the lookup raises
\* KeyError, which is caught and logged, and the entity shows what it showed
\* before the refresh.
C6_MissingKeyKeepsValue ==
    \A e \in Entities :
        Finished(e) /\ LastParsed(e) /\ NamedField(e) \notin DOMAIN LastData(e)
            => /\ last[e].outcome = "caught" /\ last[e].exc = "KeyError"
               /\ calls[e].warning = 1
               /\ attr_native_value[e] = pre[e]

\* An entity that showed a value still shows it after a mapping without its key.
C6_Witness ==
    \E e \in Entities :
        /\ Finished(e) /\ LastParsed(e) /\ NamedField(e) \notin DOMAIN LastData(e)
        /\ pre[e] # None /\ attr_native_value[e] = pre[e]

\* C7: after a successful refresh, each of the five entities that do not scale
\* shows exactly the value of its own field in the mapping of that refresh.
C7_PassThrough ==
    \A e \in Entities :
        /\ Finished(e) /\ last[e].outcome = "ok"
        /\ NamedField(e) \in {"temperature", "humidity", "water_tank", "pm25",
                              "cleaned_air_volume"}
        => attr_native_value[e] = LastData(e)[NamedField(e)]

\* The humidity entity shows 60 and the water tank entity shows False.
C7_Witness ==
    /\ Finished(2) /\ last[2].outcome = "ok" /\ attr_native_value[2] = PyInt(60)
    /\ Finished(3) /\ last[3].outcome = "ok" /\ attr_native_value[3] = PyBool(FALSE)

\* C8: every step is a step of one entity's refresh and changes at most that
\* entity's displayed value: the other entities' values, all unique ids and
\* device references, and the API handle stay as they were.
C8_OnlyOwnValue ==
    [][\E e \in Entities :
          /\ pc'[e] # pc[e]
          /\ \A o \in Entities \ {e} : attr_native_value'[o] = attr_native_value[o]
          /\ attr_unique_id' = attr_unique_id
          /\ attr_device_info' = attr_device_info
          /\ entity_api' = entity_api
          /\ api' = api]_vars

\* One entity is suspended in update(), still showing null, while another has
\* finished a refresh and shows a value.
C8_Witness ==
    \E e1, e2 \in Entities :
        /\ e1 # e2
        /\ pc[e1] = "awaiting" /\ attr_native_value[e1] = None
        /\ Finished(e2) /\ last[e2].outcome = "ok" /\ attr_native_value[e2] # None

\* C9: a successful refresh that follows a successful refresh of the same
\* entity with the same snapshot leaves the displayed value as it was.
C9_SameSnapshotSameValue ==
    [][\A e \in Entities :
          /\ pc[e] = "awaiting" /\ pc'[e] = "idle"
          /\ last[e].outcome = "ok" /\ last'[e].outcome = "ok"
          /\ last'[e].raw = last[e].raw
          => attr_native_value'[e] = attr_native_value[e]]_vars

\* The odor entity, alone refreshed, twice: 3 before the second refresh (only
\* a raw 99 gives 3) and 3 after it, again from a raw 99.
C9_Witness ==
    /\ refreshes = 2 /\ Finished(6) /\ last[6].outcome = "ok"
    /\ \A o \in Entities \ {6} : last[o].outcome = "none" /\ pc[o] = "idle"
    /\ LastData(6)["odor_level"] = PyInt(99)
    /\ pre[6] = PyInt(3) /\ attr_native_value[6] = PyInt(3)

\* C10: a refresh calls update() once; it calls get_sensor_data() once if
\* update() returned and never otherwise, and not before update() returned;
\* it ends with the entity idle again.
C10_OneAttempt ==
    \A e \in Entities :
        /\ pc[e] = "awaiting" =>
               calls[e].update = 1 /\ calls[e].get_sensor_data = 0
        /\ Finished(e) =>
               /\ calls[e].update = 1
               /\ calls[e].get_sensor_data = (IF last[e].raw # NoRaw THEN 1 ELSE 0)

\* An entity whose last refresh failed in update() is being refreshed again.
C10_Witness ==
    \E e \in Entities :
        /\ last[e].outcome = "caught" /\ last[e].raw = NoRaw
        /\ pc[e] = "awaiting" /\ calls[e].update = 1

====
